---- MODULE Spec2Model ----
(***************************************************************************)
(* Model of src/server/storage.ts: the DatabaseStorage repository over the *)
(* tables posts, likes and comments.  Every `await db....` of the source   *)
(* is one statement executed atomically by the store; an operation made of *)
(* two statements (toggleLike) is two steps, in every specification.       *)
(* Columns the repository only passes through (authorName, authorHandle,   *)
(* authorAvatar, image, post content) are left out of the rows.            *)
(***************************************************************************)
EXTENDS Integers, Sequences, FiniteSets

\* ---------------------------------------------------------------- bounds
MaxPosts == 2       \* posts ever created
MaxLikes == 3       \* Like rows ever inserted (ids are never reused)
MaxComments == 3    \* comments ever created
MaxTime == 1        \* the store's clock runs 0..MaxTime
MaxToggles == 4     \* toggleLike calls in a recorded history
MaxUsers == 2       \* users ever created
MaxOtherWrites == 3 \* rows inserted in posts, likes and comments in a history with users
MaxWrites == 5      \* rows ever inserted in a history of the feed (posts + likes + comments)
NumCallers == 2     \* concurrent callers of toggleLike

\* ---------------------------------------------------------------- inputs
PostIds == 1..MaxPosts
UserIds == {"u1", "u2"}
Texts == {"a", "b"}
Usernames == {"ann", "bob"}
UserRowIds == 1..(MaxUsers + 1)
RoomIds == {"r1", "r2", "never-seen"}
Callers == 1..NumCallers
Pairs == PostIds \X UserIds

\* addComment's fixed author label and avatar (storage.ts:166-167)
GuestAuthor == "guest"
GuestAvatar == "placeholder60"
\* the comment records a caller of createComment supplies
InsertComments == { [content |-> "c", author |-> "alice", avatar |-> "alice.png"] }

VARIABLES
    posts,        \* table posts: set of [id, createdAt]
    likes,        \* table likes: set of [id, postId, userId]
    comments,     \* table comments: set of [id, postId, content, author, avatar, createdAt]
    nextLikeId,   \* number of Like rows inserted so far (the id generator)
    now,          \* the store's clock, the default of createdAt
    calls,        \* per concurrent caller: its position inside toggleLike
    toggles,      \* per (postId, userId): completed toggleLike calls
    lastLiked,    \* per (postId, userId): <<liked>> of the latest completed toggleLike, <<>> if none
    users,        \* table users: set of [id, username]
    lastCall      \* the latest recorded call: what the store did and what its caller got

vars == <<posts, likes, comments, nextLikeId, now, calls, toggles, lastLiked, users, lastCall>>

\* What a caller gets from a call: the promise's state, the error it rejected with,
\* the value it resolved to (<<>> is undefined) and the store statements issued.
NoCall ==
    [op |-> "none", arg |-> "", failedAt |-> 0, storeError |-> "none",
     observed |-> [status |-> "fulfilled", error |-> "none", storeCalls |-> 0, value |-> <<>>]]

IdleCall == [pc |-> "idle", postId |-> 0, userId |-> "", existingLike |-> <<>>, liked |-> <<>>]

Init ==
    /\ posts = {}
    /\ likes = {}
    /\ comments = {}
    /\ nextLikeId = 0
    /\ now = 0
    /\ calls = [c \in Callers |-> IdleCall]
    /\ toggles = [pr \in Pairs |-> 0]
    /\ lastLiked = [pr \in Pairs |-> <<>>]
    /\ users = {}
    /\ lastCall = NoCall

\* ------------------------------------------------------- store statements
\* WHERE likes.postId = p AND likes.userId = u
LikesOfPair(L, p, u) == { l \in L : l.postId = p /\ l.userId = u }

\* select().from(likes).where(pair).limit(1): no ORDER BY, so any one matching row
SelectLikeLimit1(L, p, u) ==
    IF LikesOfPair(L, p, u) = {} THEN { <<>> }
    ELSE { <<l>> : l \in LikesOfPair(L, p, u) }

\* (mutant) the insert made conditional on the pair being absent
InsertLikeOnConflictDoNothing(L, id, p, u) ==
    IF LikesOfPair(L, p, u) # {} THEN L
    ELSE L \cup { [id |-> id, postId |-> p, userId |-> u] }

\* (mutant) the insert made an upsert that replaces the rows of the pair
InsertLikeReplacingPair(L, id, p, u) ==
    (L \ LikesOfPair(L, p, u)) \cup { [id |-> id, postId |-> p, userId |-> u] }

\* db.insert(likes).values({ postId, userId }) with a store-generated id
InsertLike(L, id, p, u) == L \cup { [id |-> id, postId |-> p, userId |-> u] }

\* (mutant) the delete without its where clause
DeleteLikeNoWhere(L, id) == {}

\* db.delete(likes).where(eq(likes.id, id))
DeleteLikeById(L, id) == { l \in L : l.id # id }

\* ------------------------------------------------------------ read views
getLikesByPost(p) == { l \in likes : l.postId = p }

\* (mutant) the count without its WHERE clause
getLikesCountNoWhere(p) ==
    LET count == Cardinality(likes)
    IN  IF count # 0 THEN count ELSE 0

getLikesCount(p) ==
    LET count == Cardinality({ l \in likes : l.postId = p })
    IN  IF count # 0 THEN count ELSE 0

\* result.length > 0, the same for every row limit(1) may pick
checkUserLikeIn(L, p, u) == \E result \in SelectLikeLimit1(L, p, u) : Len(result) > 0

checkUserLike(p, u) == checkUserLikeIn(likes, p, u)

checkLike(p, u) == checkUserLike(p, u)

\* ------------------------------------------------------------- toggleLike
\* (mutant) the found branch reports liked = false but deletes nothing
ToggleWriteKeepsRow(L, nid, existingLike, p, u) ==
    IF Len(existingLike) > 0
    THEN [likes |-> L, nextLikeId |-> nid, liked |-> FALSE]
    ELSE [likes |-> InsertLike(L, nid + 1, p, u), nextLikeId |-> nid + 1, liked |-> TRUE]

\* (mutant) the lookup's result is ignored: every call inserts
ToggleWriteAlwaysInsert(L, nid, existingLike, p, u) ==
    [likes |-> InsertLike(L, nid + 1, p, u), nextLikeId |-> nid + 1, liked |-> TRUE]

\* The branch of toggleLike after the lookup returned existingLike.
ToggleWrite(L, nid, existingLike, p, u) ==
    IF Len(existingLike) > 0
    THEN [likes |-> DeleteLikeById(L, existingLike[1].id), nextLikeId |-> nid, liked |-> FALSE]
    ELSE [likes |-> InsertLike(L, nid + 1, p, u), nextLikeId |-> nid + 1, liked |-> TRUE]

RECURSIVE SumOver(_, _)
SumOver(f, S) ==
    IF S = {} THEN 0
    ELSE LET x == CHOOSE y \in S : TRUE IN f[x] + SumOver(f, S \ {x})

addLike(p, u) ==
    /\ nextLikeId < MaxLikes
    /\ likes' = InsertLike(likes, nextLikeId + 1, p, u)
    /\ nextLikeId' = nextLikeId + 1
    /\ UNCHANGED <<posts, comments, now, calls, toggles, lastLiked, users, lastCall>>

\* toggleLike awaits two statements, and statements of other calls can reach the
\* store between them: the two statements are two steps.
\* First statement of caller c: the lookup (storage.ts:130-134).
toggleLikeSelect(c, p, u) ==
    /\ calls[c].pc = "idle"
    /\ \E existingLike \in SelectLikeLimit1(likes, p, u) :
         calls' = [calls EXCEPT ![c] = [pc |-> "selected", postId |-> p, userId |-> u,
                                        existingLike |-> existingLike, liked |-> <<>>]]
    /\ UNCHANGED <<posts, likes, comments, nextLikeId, now, toggles, lastLiked, users, lastCall>>

\* Second statement of caller c: the delete or the insert, then the return
\* (storage.ts:136-142).
toggleLikeWrite(c) ==
    /\ calls[c].pc = "selected"
    /\ LET w == ToggleWrite(likes, nextLikeId, calls[c].existingLike,
                            calls[c].postId, calls[c].userId) IN
       /\ w.nextLikeId <= MaxLikes
       /\ likes' = w.likes
       /\ nextLikeId' = w.nextLikeId
       /\ calls' = [calls EXCEPT ![c].pc = "returned", ![c].liked = <<w.liked>>]
    /\ UNCHANGED <<posts, comments, now, toggles, lastLiked, users, lastCall>>

\* The caller of a strictly sequential history.
SequentialCaller == CHOOSE c \in Callers : TRUE

\* No call is between its two statements: every call made so far has returned.
NoCallInFlight == \A c \in Callers : calls[c].pc = "idle"

\* toggleLike(p, u) called in a strictly sequential history: the previous call has
\* returned.  The call is made when MaxLikes leaves room for the row it may insert.
toggleLikeSequential(p, u) ==
    /\ NoCallInFlight
    /\ nextLikeId < MaxLikes \/ LikesOfPair(likes, p, u) # {}
    /\ toggleLikeSelect(SequentialCaller, p, u)

\* Second statement of caller c and the return of { liked } to a caller that awaits
\* the call and keeps the history of its calls (storage.ts:136-142).
toggleLikeWriteReturn(c) ==
    /\ calls[c].pc = "selected"
    /\ LET p == calls[c].postId
           u == calls[c].userId
           w == ToggleWrite(likes, nextLikeId, calls[c].existingLike, p, u) IN
       /\ w.nextLikeId <= MaxLikes
       /\ likes' = w.likes
       /\ nextLikeId' = w.nextLikeId
       /\ lastLiked' = [lastLiked EXCEPT ![<<p, u>>] = <<w.liked>>]
       /\ toggles' = [toggles EXCEPT ![<<p, u>>] = @ + 1]
    /\ calls' = [calls EXCEPT ![c] = IdleCall]
    /\ UNCHANGED <<posts, comments, now, users, lastCall>>

\* Second statement of caller c and the return to a caller that awaits the call
\* and keeps no history (storage.ts:136-142).
toggleLikeWriteReturnNoHistory(c) ==
    /\ calls[c].pc = "selected"
    /\ LET w == ToggleWrite(likes, nextLikeId, calls[c].existingLike,
                            calls[c].postId, calls[c].userId) IN
       /\ w.nextLikeId <= MaxLikes
       /\ likes' = w.likes
       /\ nextLikeId' = w.nextLikeId
    /\ calls' = [calls EXCEPT ![c] = IdleCall]
    /\ UNCHANGED <<posts, comments, now, toggles, lastLiked, users, lastCall>>

\* A toggleLike call its caller stops waiting for.  The async function is not
\* cancelled by that: its awaited statements still run unless the store fails them.
\* The call fails before its lookup reached the store.
toggleLikeFailBeforeSelect(c, p, u) ==
    /\ calls[c].pc = "idle"
    /\ calls' = [calls EXCEPT ![c] = [pc |-> "failed", postId |-> p, userId |-> u,
                                        existingLike |-> <<>>, liked |-> <<>>]]
    /\ UNCHANGED <<posts, likes, comments, nextLikeId, now, toggles, lastLiked, users, lastCall>>

\* The caller times out between the lookup and the write: the write is pending.
toggleLikeTimeout(c) ==
    /\ calls[c].pc = "selected"
    /\ calls' = [calls EXCEPT ![c].pc = "abandoned"]
    /\ UNCHANGED <<posts, likes, comments, nextLikeId, now, toggles, lastLiked, users, lastCall>>

\* The pending write of an abandoned call is applied; nobody sees its result.
toggleLikeLateWrite(c) ==
    /\ calls[c].pc = "abandoned"
    /\ LET w == ToggleWrite(likes, nextLikeId, calls[c].existingLike,
                            calls[c].postId, calls[c].userId) IN
       /\ w.nextLikeId <= MaxLikes
       /\ likes' = w.likes
       /\ nextLikeId' = w.nextLikeId
       /\ calls' = [calls EXCEPT ![c].pc = "lost"]
    /\ UNCHANGED <<posts, comments, now, toggles, lastLiked, users, lastCall>>

\* The pending write of an abandoned call fails in the store: it is never applied.
toggleLikeWriteFails(c) ==
    /\ calls[c].pc = "abandoned"
    /\ calls' = [calls EXCEPT ![c].pc = "failed"]
    /\ UNCHANGED <<posts, likes, comments, nextLikeId, now, toggles, lastLiked, users, lastCall>>

\* The write is applied but its result never reaches the caller.
toggleLikeLostResult(c) ==
    /\ calls[c].pc = "selected"
    /\ LET w == ToggleWrite(likes, nextLikeId, calls[c].existingLike,
                            calls[c].postId, calls[c].userId) IN
       /\ w.nextLikeId <= MaxLikes
       /\ likes' = w.likes
       /\ nextLikeId' = w.nextLikeId
       /\ calls' = [calls EXCEPT ![c].pc = "lost"]
    /\ UNCHANGED <<posts, comments, now, toggles, lastLiked, users, lastCall>>

\* The caller waits for no call: each earlier call returned, failed or was abandoned.
CallerWaitsForNone == \A c \in Callers : calls[c].pc # "selected"

\* ------------------------------------------------------------------ users
\* The store's answer to insert(users).values(insertUser).returning(): the unique
\* key on users.username makes the statement fail with a constraint violation.
StoreInsertUser(U, username) ==
    IF \E u \in U : u.username = username
    THEN [error |-> "ConstraintViolation", users |-> U, rows |-> <<>>]
    ELSE LET row == [id |-> Cardinality(U) + 1, username |-> username]
         IN  [error |-> "none", users |-> U \cup {row}, rows |-> <<row>>]

\* (mutant) a catch around the awaited statement that returns undefined
AwaitFirstRowSwallows(res, k) ==
    IF res.error # "none"
    THEN [status |-> "fulfilled", error |-> "none", storeCalls |-> k, value |-> <<>>]
    ELSE [status |-> "fulfilled", error |-> "none", storeCalls |-> k,
          value |-> IF Len(res.rows) > 0 THEN <<res.rows[1]>> ELSE <<>>]

\* `const result = await <statement k>; return result[0]` with no try/catch around
\* it: a failed statement rejects the call with the store's error.
AwaitFirstRow(res, k) ==
    IF res.error # "none"
    THEN [status |-> "rejected", error |-> res.error, storeCalls |-> k, value |-> <<>>]
    ELSE [status |-> "fulfilled", error |-> "none", storeCalls |-> k,
          value |-> IF Len(res.rows) > 0 THEN <<res.rows[1]>> ELSE <<>>]

createUser(username) ==
    LET res == StoreInsertUser(users, username) IN
    /\ res.error # "none" \/ Cardinality(users) < MaxUsers
    /\ users' = res.users
    /\ lastCall' = [op |-> "createUser", arg |-> username,
                    failedAt |-> IF res.error # "none" THEN 1 ELSE 0,
                    storeError |-> res.error, observed |-> AwaitFirstRow(res, 1)]
    /\ UNCHANGED <<posts, likes, comments, nextLikeId, now, calls, toggles, lastLiked>>

\* result[0] of a select with limit(1): any one of the matching rows, or undefined
FirstRowOf(matching) ==
    IF matching = {} THEN { <<>> } ELSE { <<u>> : u \in matching }

\* select().from(users).where(eq(users.id, id)).limit(1) on the users U
SelectUserById(U, id) == FirstRowOf({ u \in U : u.id = id })

\* select().from(users).where(eq(users.username, username)).limit(1) on the users U
SelectUserByUsername(U, username) == FirstRowOf({ u \in U : u.username = username })

\* (mutant) the lookup without its where clause
getUserNoWhere(id) == FirstRowOf(users)

\* the values getUser(id) may return
getUser(id) == SelectUserById(users, id)

\* the values getUserByUsername(username) may return
getUserByUsername(username) == SelectUserByUsername(users, username)

\* ------------------------------------------------------ posts and comments
Tick ==
    /\ now < MaxTime
    /\ now' = now + 1
    /\ UNCHANGED <<posts, likes, comments, nextLikeId, calls, toggles, lastLiked, users, lastCall>>

\* db.insert(posts).values(insertPost).returning(): id and createdAt are store defaults
createPost ==
    /\ Cardinality(posts) < MaxPosts
    /\ posts' = posts \cup { [id |-> Cardinality(posts) + 1, createdAt |-> now] }
    /\ UNCHANGED <<likes, comments, nextLikeId, now, calls, toggles, lastLiked, users, lastCall>>

\* (mutant) the insert with the values of content and author exchanged
InsertCommentAuthorAsContent(C, p, content, author, avatar, t) ==
    C \cup { [id |-> Cardinality(C) + 1, postId |-> p, content |-> author,
              author |-> content, avatar |-> avatar, createdAt |-> t] }

\* db.insert(comments).values({postId, content, author, avatar}): one new row, id and
\* createdAt are store defaults
InsertComment(C, p, content, author, avatar, t) ==
    C \cup { [id |-> Cardinality(C) + 1, postId |-> p, content |-> content,
              author |-> author, avatar |-> avatar, createdAt |-> t] }

addComment(p, text) ==
    /\ Cardinality(comments) < MaxComments
    /\ comments' = InsertComment(comments, p, text, GuestAuthor, GuestAvatar, now)
    /\ UNCHANGED <<posts, likes, nextLikeId, now, calls, toggles, lastLiked, users, lastCall>>

createComment(p, ic) ==
    /\ Cardinality(comments) < MaxComments
    /\ comments' = InsertComment(comments, p, ic.content, ic.author, ic.avatar, now)
    /\ UNCHANGED <<posts, likes, nextLikeId, now, calls, toggles, lastLiked, users, lastCall>>

\* ------------------------------------------------------------- ORDER BY
\* The lists a query may return for the rows R under an ORDER BY: every row once,
\* rows of equal createdAt in any order.

\* (mutant) the ordering without desc()
RECURSIVE OrderByCreatedAtNoDesc(_)
OrderByCreatedAtNoDesc(R) ==
    IF R = {} THEN { <<>> }
    ELSE UNION { { <<x>> \o s : s \in OrderByCreatedAtNoDesc(R \ {x}) }
                 : x \in { y \in R : \A z \in R : y.createdAt <= z.createdAt } }

\* .orderBy(desc(createdAt)): a row of the greatest createdAt, then the rest
RECURSIVE OrderByCreatedAtDesc(_)
OrderByCreatedAtDesc(R) ==
    IF R = {} THEN { <<>> }
    ELSE UNION { { <<x>> \o s : s \in OrderByCreatedAtDesc(R \ {x}) }
                 : x \in { y \in R : \A z \in R : y.createdAt >= z.createdAt } }

\* .orderBy(createdAt): a row of the least createdAt, then the rest
RECURSIVE OrderByCreatedAtAsc(_)
OrderByCreatedAtAsc(R) ==
    IF R = {} THEN { <<>> }
    ELSE UNION { { <<x>> \o s : s \in OrderByCreatedAtAsc(R \ {x}) }
                 : x \in { y \in R : \A z \in R : y.createdAt <= z.createdAt } }

\* --------------------------------------------------------------- getPosts
\* (mutant) innerJoin in place of leftJoin: a row with no match is dropped
InnerJoinByPost(J, T) ==
    UNION { { Append(r, <<t>>) : t \in { t \in T : t.postId = r[1].id } } : r \in J }

\* .leftJoin(T, eq(posts.id, T.postId)) on join rows <<post, ...>>: a row with no
\* match is kept once, with NULL (the empty sequence) in the new column.
LeftJoinByPost(J, T) ==
    UNION { IF { t \in T : t.postId = r[1].id } = {}
            THEN { Append(r, <<>>) }
            ELSE { Append(r, <<t>>) : t \in { t \in T : t.postId = r[1].id } }
          : r \in J }

\* (mutant) COUNT(col.id) without DISTINCT: every join row with a non-NULL id counts
CountId(G, col) ==
    Cardinality({ x \in G : x[col] # <<>> })

\* COUNT(DISTINCT col.id) over a group of join rows: NULLs are not counted
CountDistinctId(G, col) ==
    Cardinality({ r[col][1].id : r \in { x \in G : x[col] # <<>> } })

PostsJoined == LeftJoinByPost(LeftJoinByPost({ <<p>> : p \in posts }, likes), comments)

\* .groupBy(posts.id) with the two counts of the select list
PostsWithCounts ==
    { [id |-> pid, createdAt |-> (CHOOSE r \in PostsJoined : r[1].id = pid)[1].createdAt,
       likeCount |-> CountDistinctId({ r \in PostsJoined : r[1].id = pid }, 2),
       commentCount |-> CountDistinctId({ r \in PostsJoined : r[1].id = pid }, 3)]
      : pid \in { r[1].id : r \in PostsJoined } }

\* the lists getPosts() may return
getPosts == OrderByCreatedAtDesc(PostsWithCounts)

getPost(id) == IF \E p \in posts : p.id = id THEN <<CHOOSE p \in posts : p.id = id>> ELSE <<>>

\* (mutant) the room filter the name promises: only the room "r1" has the posts
getPostsByRoomFiltered(roomId) ==
    OrderByCreatedAtDesc({ p \in posts : roomId = "r1" })

\* the lists getPostsByRoom(roomId) may return
getPostsByRoom(roomId) == OrderByCreatedAtDesc(posts)

\* (mutant) the comments ordered newest first, like the posts
getCommentsByPostDesc(p) == OrderByCreatedAtDesc({ c \in comments : c.postId = p })

\* the lists getCommentsByPost(postId) may return
getCommentsByPost(p) == OrderByCreatedAtAsc({ c \in comments : c.postId = p })

\* the lists getComments(postId) may return: the content column of the ordered rows
getComments(p) ==
    { [i \in 1..Len(s) |-> s[i].content]
      : s \in OrderByCreatedAtAsc({ c \in comments : c.postId = p }) }

\* ------------------------------------------------------- failing store calls
\* The number of store statements each method awaits, in order.
StatementsOf ==
    [getUser |-> 1, getUserByUsername |-> 1, createUser |-> 1, getPosts |-> 1,
     getPost |-> 1, getPostsByRoom |-> 1, createPost |-> 1, getLikesByPost |-> 1,
     getLikesCount |-> 1, checkUserLike |-> 1, checkLike |-> 1, addLike |-> 1,
     toggleLike |-> 2, getCommentsByPost |-> 1, getComments |-> 1, addComment |-> 1,
     createComment |-> 1]

Operations == DOMAIN StatementsOf

\* the errors an awaited store statement may reject with
StoreErrors == { "StoreUnavailable", "Timeout", "ConstraintViolation" }

\* (mutant) the rejection caught and replaced by a default return value
AwaitRejectsCaught(err, k) ==
    [status |-> "fulfilled", error |-> "none", storeCalls |-> k, value |-> <<>>]

\* An awaited statement, the k-th of its method, rejects with err.  No method has a
\* try/catch, so the rejection leaves the method at that await: the method's promise
\* rejects with err and the statements after the k-th are not issued.
AwaitRejects(err, k) ==
    [status |-> "rejected", error |-> err, storeCalls |-> k, value |-> <<>>]

\* A call of op whose k-th statement fails with err.  The failing statement changes
\* nothing, and the statements before it (the lookup of toggleLike) only read.
callFails(op, k, err) ==
    /\ k \in 1..StatementsOf[op]
    /\ lastCall' = [op |-> op, arg |-> "", failedAt |-> k, storeError |-> err,
                    observed |-> AwaitRejects(err, k)]
    /\ UNCHANGED <<posts, likes, comments, nextLikeId, now, calls, toggles, lastLiked, users>>

\* --------------------------------------------------------- specifications
\* Every operation of the repository, by sequential and by concurrent callers.  The
\* properties below are checked under the specifications that follow, each of
\* which takes the operations its histories are made of.
Next ==
    \/ Tick
    \/ \E username \in Usernames : createUser(username)
    \/ createPost
    \/ \E p \in PostIds, u \in UserIds : addLike(p, u)
    \/ \E c \in Callers, p \in PostIds, u \in UserIds : toggleLikeSelect(c, p, u)
    \/ \E c \in Callers : toggleLikeWrite(c)
    \/ \E c \in Callers : toggleLikeWriteReturn(c)
    \/ \E c \in Callers : toggleLikeWriteReturnNoHistory(c)
    \/ \E c \in Callers, p \in PostIds, u \in UserIds : toggleLikeFailBeforeSelect(c, p, u)
    \/ \E c \in Callers : toggleLikeTimeout(c)
    \/ \E c \in Callers : toggleLikeLateWrite(c)
    \/ \E c \in Callers : toggleLikeWriteFails(c)
    \/ \E c \in Callers : toggleLikeLostResult(c)
    \/ \E p \in PostIds, t \in Texts : addComment(p, t)
    \/ \E p \in PostIds, ic \in InsertComments : createComment(p, ic)
    \/ \E op \in Operations, k \in 1..2, err \in StoreErrors : callFails(op, k, err)

Spec == Init /\ [][Next]_vars

\* Concurrent callers of toggleLike, one call each.
NextConc ==
    \E c \in Callers :
        \/ \E p \in PostIds, u \in UserIds : toggleLikeSelect(c, p, u)
        \/ toggleLikeWrite(c)

SpecConc == Init /\ [][NextConc]_vars

\* One caller that issues toggleLike calls one after another, the next one (a retry
\* or any other call) only when it no longer waits for the previous one.
NextAbandon ==
    \E c \in Callers :
        \/ \E p \in PostIds, u \in UserIds : CallerWaitsForNone /\ toggleLikeSelect(c, p, u)
        \/ \E p \in PostIds, u \in UserIds :
              CallerWaitsForNone /\ toggleLikeFailBeforeSelect(c, p, u)
        \/ toggleLikeWrite(c)
        \/ toggleLikeTimeout(c)
        \/ toggleLikeLateWrite(c)
        \/ toggleLikeWriteFails(c)
        \/ toggleLikeLostResult(c)

SpecAbandon == Init /\ [][NextAbandon]_vars

\* Strictly sequential histories in which likes are written through toggleLike only:
\* each call is made when the call before it has returned.
NextToggle ==
    \/ \E p \in PostIds, u \in UserIds :
          SumOver(toggles, Pairs) < MaxToggles /\ toggleLikeSequential(p, u)
    \/ toggleLikeWriteReturn(SequentialCaller)
    \/ NoCallInFlight /\ createPost

SpecToggle == Init /\ [][NextToggle]_vars

\* Strictly sequential histories of the like operations.
NextLikes ==
    \/ \E p \in PostIds, u \in UserIds :
          SumOver(toggles, Pairs) < MaxToggles /\ toggleLikeSequential(p, u)
    \/ toggleLikeWriteReturn(SequentialCaller)
    \/ \E p \in PostIds, u \in UserIds : NoCallInFlight /\ addLike(p, u)

SpecLikes == Init /\ [][NextLikes]_vars

\* Strictly sequential histories of the writes the feed's counts depend on.
WritesDone == Cardinality(posts) + nextLikeId + Cardinality(comments)

NextCounts ==
    \/ NoCallInFlight /\ WritesDone < MaxWrites /\ createPost
    \/ \E p \in PostIds, u \in UserIds :
          NoCallInFlight /\ WritesDone < MaxWrites /\ addLike(p, u)
    \/ \E p \in PostIds, u \in UserIds : WritesDone < MaxWrites /\ toggleLikeSequential(p, u)
    \/ toggleLikeWriteReturnNoHistory(SequentialCaller)
    \/ \E p \in PostIds, t \in Texts :
          NoCallInFlight /\ WritesDone < MaxWrites /\ addComment(p, t)
    \/ \E p \in PostIds, ic \in InsertComments :
          NoCallInFlight /\ WritesDone < MaxWrites /\ createComment(p, ic)

SpecCounts == Init /\ [][NextCounts]_vars

\* Strictly sequential histories of the writes the order of the posts depends on,
\* with likes for the counts that getPosts attaches.
NextPostOrder ==
    \/ Tick
    \/ createPost
    \/ \E p \in PostIds, u \in UserIds : addLike(p, u)

SpecPostOrder == Init /\ [][NextPostOrder]_vars

\* Strictly sequential histories of the writes the order of the comments depends on.
NextCommentOrder ==
    \/ Tick
    \/ \E p \in PostIds, t \in Texts : addComment(p, t)
    \/ \E p \in PostIds, ic \in InsertComments : createComment(p, ic)

SpecCommentOrder == Init /\ [][NextCommentOrder]_vars

\* Strictly sequential histories of every write of the repository: createUser
\* among at most MaxOtherWrites rows inserted in the other tables.
OtherWritesLeft == WritesDone < MaxOtherWrites

NextUsers ==
    \/ \E username \in Usernames : NoCallInFlight /\ createUser(username)
    \/ NoCallInFlight /\ OtherWritesLeft /\ createPost
    \/ \E p \in PostIds, u \in UserIds : NoCallInFlight /\ OtherWritesLeft /\ addLike(p, u)
    \/ \E p \in PostIds, u \in UserIds :
          (OtherWritesLeft \/ checkUserLike(p, u)) /\ toggleLikeSequential(p, u)
    \/ toggleLikeWriteReturnNoHistory(SequentialCaller)
    \/ \E p \in PostIds, t \in Texts : NoCallInFlight /\ OtherWritesLeft /\ addComment(p, t)
    \/ \E p \in PostIds, ic \in InsertComments :
          NoCallInFlight /\ OtherWritesLeft /\ createComment(p, ic)

SpecUsers == Init /\ [][NextUsers]_vars

\* Strictly sequential histories of calls whose store statements may fail, among
\* calls of createUser and createPost that reach the store.
NextFail ==
    \/ \E op \in Operations, k \in 1..2, err \in StoreErrors : callFails(op, k, err)
    \/ \E username \in Usernames : createUser(username)
    \/ createPost

SpecFail == Init /\ [][NextFail]_vars

\* ================================================================ claims
PairRows(p, u) == Cardinality(LikesOfPair(likes, p, u))

\* ---- C1: concurrent toggleLike(p,u) calls, interleaved in any order, never leave
\* more than one Like row for the pair (p,u).
C1_ConcurrentAtMostOneLike ==
    \A p \in PostIds, u \in UserIds : PairRows(p, u) <= 1

\* ---- C2: from no Like row for (p,u), after n sequential toggleLike(p,u) calls
\* checkUserLike(p,u) is true exactly when n is odd, and after each call it equals
\* the liked value that call returned.
C2_ToggleLaw ==
    \A p \in PostIds, u \in UserIds :
        /\ checkUserLike(p, u) <=> (toggles[<<p, u>>] % 2 = 1)
        /\ toggles[<<p, u>>] > 0 => lastLiked[<<p, u>>] = <<checkUserLike(p, u)>>

C2_Witness ==
    \E p \in PostIds, u \in UserIds :
        /\ toggles[<<p, u>>] = 3
        /\ checkUserLike(p, u)
        /\ \E q \in PostIds, v \in UserIds : toggles[<<q, v>>] = 0

\* ---- C3: in a sequential history that writes likes through toggleLike only,
\* no two Like rows have the same (postId, userId).
C3_SequentialAtMostOneLike ==
    \A l1, l2 \in likes :
        (l1.postId = l2.postId /\ l1.userId = l2.userId) => l1 = l2

C3_Witness ==
    /\ posts # {}
    /\ \E p \in PostIds, u \in UserIds :
         /\ toggles[<<p, u>>] >= 3
         /\ PairRows(p, u) = 1
    /\ Cardinality(likes) >= 2

\* ---- C6: in a sequential history that writes likes through toggleLike only,
\* getLikesCount(p) is the number of users whose latest toggleLike(p,u) returned
\* liked = true; on a post with no likes the first call returns true and the count
\* is 1, the second returns false and the count is 0.
OthersNeverToggled(p, u) == \A v \in UserIds \ {u} : toggles[<<p, v>>] = 0

C6_LikesCountLaw ==
    \A p \in PostIds :
        /\ getLikesCount(p) = Cardinality({ u \in UserIds : lastLiked[<<p, u>>] = <<TRUE>> })
        /\ \A u \in UserIds :
             /\ (toggles[<<p, u>>] = 1 /\ OthersNeverToggled(p, u))
                  => (lastLiked[<<p, u>>] = <<TRUE>> /\ getLikesCount(p) = 1)
             /\ (toggles[<<p, u>>] = 2 /\ OthersNeverToggled(p, u))
                  => (lastLiked[<<p, u>>] = <<FALSE>> /\ getLikesCount(p) = 0)

C6_Witness ==
    \E p, q \in PostIds :
        /\ p # q
        /\ getLikesCount(p) = 2
        /\ \E u \in UserIds : toggles[<<q, u>>] = 2 /\ OthersNeverToggled(q, u)

\* ---- C7: concurrent toggleLike calls are serializable per pair: once every call
\* has returned, the rows of a pair and the returned liked values are those of the
\* calls run one after another (from no row: k calls leave k mod 2 rows, and
\* ceil(k/2) of them returned true).
ReturnedOn(p, u) ==
    { c \in Callers : calls[c].pc = "returned" /\ calls[c].postId = p /\ calls[c].userId = u }

C7_ToggleSerializable ==
    (\A c \in Callers : calls[c].pc # "selected") =>
        \A p \in PostIds, u \in UserIds :
            /\ PairRows(p, u) = Cardinality(ReturnedOn(p, u)) % 2
            /\ Cardinality({ c \in ReturnedOn(p, u) : calls[c].liked = <<TRUE>> })
                 = (Cardinality(ReturnedOn(p, u)) + 1) \div 2

\* ---- C4: for every post, the likeCount getPosts reports is getLikesCount(postId)
\* and the commentCount it reports is the length of getCommentsByPost(postId), also
\* for a post with several likes and several comments.
C4_CountsAgree ==
    /\ getPosts # {}
    /\ \A r \in getPosts : \A i \in 1..Len(r) :
         /\ r[i].likeCount = getLikesCount(r[i].id)
         /\ getCommentsByPost(r[i].id) # {}
         /\ \A cs \in getCommentsByPost(r[i].id) : r[i].commentCount = Len(cs)

C4_Witness ==
    \E r \in getPosts : \E i \in 1..Len(r) :
        /\ r[i].likeCount >= 2
        /\ r[i].commentCount >= 2

\* ---- C5: getPosts returns exactly one entry for every post of the store, with
\* likeCount 0 for a post without likes and commentCount 0 for one without comments.
C5_EveryPostOnce ==
    /\ getPosts # {}
    /\ \A r \in getPosts :
         /\ Len(r) = Cardinality(posts)
         /\ \A post \in posts :
              \E i \in 1..Len(r) :
                  /\ r[i].id = post.id
                  /\ r[i].createdAt = post.createdAt
                  /\ \A j \in 1..Len(r) : r[j].id = post.id => j = i
                  /\ getLikesByPost(post.id) = {} => r[i].likeCount = 0
                  /\ { c \in comments : c.postId = post.id } = {} => r[i].commentCount = 0

C5_Witness ==
    \E r \in getPosts : \E i, j \in 1..Len(r) :
        /\ r[i].likeCount = 0 /\ r[i].commentCount = 0
        /\ r[j].likeCount > 0 /\ r[j].commentCount = 0

\* ---- C8: every addLike(postId, userId) call inserts one new Like row whether or not
\* the pair already has one: the pair's rows and getLikesCount(postId) grow by one,
\* no row is removed, and on a pair that had a row the pair then has two.
C8_AddLikeAlwaysInserts ==
    [][ \A p \in PostIds, u \in UserIds :
          addLike(p, u) =>
              /\ Cardinality(LikesOfPair(likes', p, u)) = PairRows(p, u) + 1
              /\ getLikesCount(p)' = getLikesCount(p) + 1
              /\ likes \subseteq likes'
              /\ PairRows(p, u) >= 1 => ~C3_SequentialAtMostOneLike' ]_vars

C8_Witness ==
    \E p \in PostIds, u \in UserIds : PairRows(p, u) = 2 /\ toggles[<<p, u>>] = 0

\* ---- C9: getPosts and getPostsByRoom list a post created strictly later before a
\* post created strictly earlier.
NewestFirst(r) ==
    \A i, j \in 1..Len(r) : r[i].createdAt > r[j].createdAt => i < j

C9_NewestFirst ==
    /\ getPosts # {}
    /\ \A r \in getPosts : Len(r) = Cardinality(posts) /\ NewestFirst(r)
    /\ \A roomId \in {"r1", "r2"} :
         /\ getPostsByRoom(roomId) # {}
         /\ \A r \in getPostsByRoom(roomId) :
              Len(r) = Cardinality(posts) /\ NewestFirst(r)

C9_Witness ==
    \E p1, p2 \in posts :
        /\ p1.id < p2.id
        /\ p1.createdAt < p2.createdAt
        /\ \A r \in getPosts : r[1].id = p2.id

\* ---- C10: getCommentsByPost returns exactly the comments of the post, oldest
\* first (in insertion order when their timestamps increase), and getComments
\* returns the content of those rows in the same order.
ContentsOf(cs) == [i \in 1..Len(cs) |-> cs[i].content]

C10_CommentsOldestFirst ==
    \A p \in PostIds :
        /\ getCommentsByPost(p) # {}
        /\ \A cs \in getCommentsByPost(p) :
             /\ { cs[i] : i \in 1..Len(cs) } = { c \in comments : c.postId = p }
             /\ Len(cs) = Cardinality({ c \in comments : c.postId = p })
             /\ \A i, j \in 1..Len(cs) :
                  /\ cs[i].createdAt < cs[j].createdAt => i < j
                  /\ (i < j /\ cs[i].createdAt # cs[j].createdAt) => cs[i].id < cs[j].id
        /\ getComments(p) = { ContentsOf(cs) : cs \in getCommentsByPost(p) }

C10_Witness ==
    \E p \in PostIds :
        /\ \E c \in comments : c.postId # p
        /\ \A cs \in getCommentsByPost(p) :
             /\ Len(cs) >= 2
             /\ cs[1].createdAt < cs[2].createdAt
             /\ cs[1].content # cs[2].content

\* ---- C11: getPostsByRoom ignores its argument: for any two roomId values it may
\* return the same lists, each of them all the posts of the store, newest first.
C11_RoomIgnored ==
    \A room1, room2 \in RoomIds :
        /\ getPostsByRoom(room1) = getPostsByRoom(room2)
        /\ getPostsByRoom(room1) # {}
        /\ \A r \in getPostsByRoom(room1) :
             /\ { r[i] : i \in 1..Len(r) } = posts
             /\ Len(r) = Cardinality(posts)
             /\ NewestFirst(r)

C11_Witness ==
    /\ Cardinality(posts) = 2
    /\ \A r \in getPostsByRoom("never-seen") : r[1].createdAt > r[2].createdAt

\* ---- C12: when toggleLike(p,u) calls fail, time out or are abandoned at any point,
\* whether or not their pending writes are applied later and whatever calls the
\* caller issues afterwards, the store never holds more than one Like row for (p,u).
C12_AbandonedAtMostOneLike ==
    \A p \in PostIds, u \in UserIds :
        Cardinality({ l \in likes : l.postId = p /\ l.userId = u }) < 2

\* ---- C13: createUser with a username an existing user has is rejected with the
\* store's constraint violation after one store statement (no pre-check), and the
\* users are unchanged; with a fresh username it resolves to the inserted user, which
\* getUser(id) and getUserByUsername(username) then return.
CreateUserCalled(username) ==
    /\ lastCall' # lastCall
    /\ lastCall'.op = "createUser"
    /\ lastCall'.arg = username

C13_CreateUserUnique ==
    [][ \A username \in Usernames :
          CreateUserCalled(username) =>
              IF \E u \in users : u.username = username
              THEN /\ lastCall'.observed.status = "rejected"
                   /\ lastCall'.observed.error = "ConstraintViolation"
                   /\ lastCall'.observed.storeCalls = 1
                   /\ users' = users
              ELSE /\ lastCall'.observed.status = "fulfilled"
                   /\ lastCall'.observed.storeCalls = 1
                   /\ Len(lastCall'.observed.value) = 1
                   /\ lastCall'.observed.value[1].username = username
                   /\ lastCall'.observed.value[1] \notin users
                   /\ users' = users \cup { lastCall'.observed.value[1] }
                   /\ SelectUserById(users', lastCall'.observed.value[1].id)
                        = { lastCall'.observed.value }
                   /\ SelectUserByUsername(users', username) = { lastCall'.observed.value } ]_vars

C13_Witness ==
    /\ lastCall.op = "createUser"
    /\ lastCall.observed.status = "rejected"
    /\ Cardinality(users) = 2
    /\ posts # {}

\* ---- C14: getUser(id) for an id no user has returns absent, and still does after
\* any write that creates no user with that id.
CreatedUserWithId(id) ==
    /\ lastCall' # lastCall
    /\ lastCall'.op = "createUser"
    /\ lastCall'.observed.status = "fulfilled"
    /\ lastCall'.observed.value[1].id = id

C14_AbsentStaysAbsent ==
    [][ \A id \in UserRowIds :
          /\ (\A u \in users : u.id # id) => getUser(id) = { <<>> }
          /\ (getUser(id) = { <<>> } /\ ~CreatedUserWithId(id)) => getUser(id)' = { <<>> } ]_vars

C14_Witness ==
    /\ users # {} /\ posts # {} /\ likes # {} /\ comments # {}
    /\ \E id \in UserRowIds : getUser(id) = { <<>> }

\* ---- C15: addComment(p, t) inserts exactly one comment, for post p, with content t
\* and the fixed guest author and avatar, and changes no other comment; when p had
\* no comment before, getComments(p) afterwards returns exactly the list <<t>>.
CommentsOf(p) == { c \in comments : c.postId = p }

C15_AddCommentGuest ==
    [][ \A p \in PostIds, t \in Texts :
          addComment(p, t) =>
              /\ comments \subseteq comments'
              /\ Cardinality(comments' \ comments) = 1
              /\ \A c \in comments' \ comments :
                    /\ c.postId = p
                    /\ c.content = t
                    /\ c.author = GuestAuthor
                    /\ c.avatar = GuestAvatar
              /\ (CommentsOf(p) = {} => getComments(p)' = { <<t>> }) ]_vars

C15_Witness ==
    \E p \in PostIds, q \in PostIds, t \in Texts :
        /\ p # q
        /\ getComments(p) = { <<t>> }
        /\ \E c \in CommentsOf(p) : c.author = GuestAuthor /\ c.avatar = GuestAvatar
        /\ Cardinality(CommentsOf(q)) = 2
        /\ \E c \in CommentsOf(q) : c.author # GuestAuthor

\* ---- C16: a call one of whose store statements failed is rejected with the error
\* of the store, and the failed statement is the last one the call issued: the error
\* is not swallowed or replaced by a return value, and nothing is retried.
C16_FailuresSurface ==
    lastCall.failedAt > 0 =>
        /\ lastCall.observed.status = "rejected"
        /\ lastCall.observed.error = lastCall.storeError
        /\ lastCall.observed.error \in StoreErrors
        /\ lastCall.observed.value = <<>>
        /\ lastCall.observed.storeCalls = lastCall.failedAt

C16_Witness ==
    /\ lastCall.op = "toggleLike"
    /\ lastCall.failedAt = 2
    /\ lastCall.storeError = "Timeout"
    /\ lastCall.observed.status = "rejected"
    /\ users # {} /\ posts # {}

\* A step in which a toggleLike(p, u) call returns; lastLiked' then holds the liked
\* value it returned.
ToggleLikeReturns(p, u) == toggles'[<<p, u>>] = toggles[<<p, u>>] + 1

\* ---- C17 (as stated): in sequential histories that may contain addLike, right
\* after toggleLike(p,u) returns, checkUserLike(p,u) equals the liked value returned.
C17_ToggleReturnsState ==
    [][ \A p \in PostIds, u \in UserIds :
          ToggleLikeReturns(p, u) => lastLiked'[<<p, u>>] = <<checkUserLike(p, u)'>> ]_vars

\* ---- C17 (amended): right after toggleLike(p,u) returns in a sequential history,
\* liked = true means the pair has exactly the one row just inserted; liked = false
\* means one row of the pair was deleted, so checkUserLike(p,u) equals the returned
\* value when the pair had at most one row before the call, and after addLike had
\* given the pair two or more rows the call returns false while checkUserLike(p,u)
\* is still true.
C17_ToggleReturnsStateUpToOneRow ==
    [][ \A p \in PostIds, u \in UserIds :
          ToggleLikeReturns(p, u) =>
              /\ PairRows(p, u) = 0 =>
                    /\ lastLiked'[<<p, u>>] = <<TRUE>>
                    /\ Cardinality(LikesOfPair(likes', p, u)) = 1
              /\ PairRows(p, u) >= 1 =>
                    /\ lastLiked'[<<p, u>>] = <<FALSE>>
                    /\ Cardinality(LikesOfPair(likes', p, u)) = PairRows(p, u) - 1
              /\ PairRows(p, u) <= 1 => lastLiked'[<<p, u>>] = <<checkUserLike(p, u)'>>
              /\ PairRows(p, u) >= 2 => checkUserLike(p, u)' ]_vars

C17_Witness ==
    \E p \in PostIds, u \in UserIds, q \in PostIds, v \in UserIds :
        /\ toggles[<<p, u>>] = 1
        /\ lastLiked[<<p, u>>] = <<FALSE>>
        /\ checkUserLike(p, u)
        /\ toggles[<<q, v>>] = 2
        /\ lastLiked[<<q, v>>] = <<FALSE>>
        /\ ~checkUserLike(q, v)

\* A step in which a toggleLike(p, u) call that has made its lookup leaves its
\* second statement.
ToggleLikeStep(p, u) ==
    \E c \in Callers :
        /\ calls[c].pc = "selected"
        /\ calls[c].postId = p
        /\ calls[c].userId = u
        /\ calls'[c].pc # "selected"

\* ---- C18: every step of a sequential history keeps every user, post and comment
\* row as it is, and a step that removes a Like row is a toggleLike call on a pair
\* that had a row.
C18_RowsOnlyGrow ==
    [][ /\ users \subseteq users'
        /\ posts \subseteq posts'
        /\ comments \subseteq comments'
        /\ ~(likes \subseteq likes') =>
              \E p \in PostIds, u \in UserIds : checkUserLike(p, u) /\ ToggleLikeStep(p, u) ]_vars

C18_Witness ==
    /\ users # {} /\ posts # {} /\ comments # {}
    /\ nextLikeId = 1
    /\ likes = {}

\* ---- C19: a toggleLike(p,u) call of a sequential history removes exactly one row
\* of (p,u), the one its lookup returned, when the pair has a row, and adds exactly
\* one row of (p,u)
\* otherwise; the rows of every other pair and all users, posts and comments stay
\* as they are.
C19_ToggleChangesOneRow ==
    [][ \A p \in PostIds, u \in UserIds :
          ToggleLikeStep(p, u) =>
              /\ PairRows(p, u) >= 1 =>
                    /\ likes' \subseteq likes
                    /\ Cardinality(likes \ likes') = 1
                    /\ \A l \in likes \ likes' :
                          /\ <<l>> \in SelectLikeLimit1(likes, p, u)
                          /\ \E c \in Callers : calls[c].existingLike = <<l>>
                    /\ Cardinality(LikesOfPair(likes', p, u)) = PairRows(p, u) - 1
              /\ PairRows(p, u) = 0 =>
                    /\ likes \subseteq likes'
                    /\ Cardinality(likes' \ likes) = 1
                    /\ \A l \in likes' \ likes : l.postId = p /\ l.userId = u
              /\ \A q \in PostIds, v \in UserIds :
                    <<q, v>> # <<p, u>> => LikesOfPair(likes', q, v) = LikesOfPair(likes, q, v)
              /\ users' = users
              /\ posts' = posts
              /\ comments' = comments ]_vars

C19_Witness ==
    /\ users # {} /\ posts # {}
    /\ nextLikeId = 2
    /\ \E p \in PostIds, u \in UserIds, q \in PostIds, v \in UserIds :
          /\ <<p, u>> # <<q, v>>
          /\ PairRows(p, u) = 1
          /\ PairRows(q, v) = 0
          /\ Cardinality(likes) = 1

====
